---- MODULE Spec2Model ----
(***************************************************************************)
(* The view controller of static/script.js: the DOMContentLoaded handler,  *)
(* showSection, fetchProducts, selectProduct, the add-product submit       *)
(* handler and the back button handler, run on the single-threaded event   *)
(* loop.  One action is one event-loop turn: a DOM event handler up to its *)
(* first await, or the continuation of an async function after an awaited  *)
(* promise settles, up to the next await or the end of the function.       *)
(***************************************************************************)
EXTENDS Integers, Sequences, FiniteSets, TLC

\* bound on the number of requests issued during one run of the page
MaxRequests == 5

\* `let selectedProductId = null` : the null of line 12, product ids being 1, 2, ...
null == 0

VARIABLES
    loaded,                 \* the DOMContentLoaded handler has run
    display,                \* style.display of the regions showSection touches
    selectedProductId,      \* line 12
    productListDiv,         \* content of #product-list
    paymentStatusMessage,   \* textContent and className of #payment-status-message
    qrCodeContainer,        \* content of #qr-code-container
    addProductMessage,      \* textContent and className of #add-product-message
    formFields,             \* values of the inputs of #add-product-form
    listReqs,               \* suspended fetchProducts invocations
    qrReqs,                 \* suspended selectProduct invocations
    addReqs,                \* suspended submit handler invocations
    nList, nQr, nAdd,       \* number of invocations started, per function
    lastClicked,            \* history: id of the product of the last card clicked
    overlap,                \* history: a card was clicked while a QR request was in flight
    listShownOf             \* history: the fetchProducts invocation that last wrote #product-list

vars == <<loaded, display, selectedProductId, productListDiv, paymentStatusMessage,
          qrCodeContainer, addProductMessage, formFields, listReqs, qrReqs, addReqs,
          nList, nQr, nAdd, lastClicked, overlap, listShownOf>>

(***************************************************************************)
(* The DOM regions whose display showSection changes.                      *)
(***************************************************************************)
Regions == {"admin-section-1", "admin-section-2", "payment-section", "dispensing-section"}

\* the elements matched by '.container > div' (markup not part of the sources)
ContainerDivs == Regions

\* the id attribute of each region (the admin sections are matched by class)
RegionId(r) == IF r \in {"payment-section", "dispensing-section"} THEN r ELSE ""

Views == {"product-list-view", "payment-section", "dispensing-section"}

\* showSection without the loop of lines 16-21 that hides every section first
showSection_noHide(sectionId, d) ==
    IF sectionId = "product-list-view"
    THEN [d EXCEPT !["admin-section-1"] = "block", !["admin-section-2"] = "block"]
    ELSE IF sectionId = "payment-section"
    THEN [d EXCEPT !["admin-section-1"] = "none", !["admin-section-2"] = "none",
                   !["payment-section"] = "block"]
    ELSE IF sectionId = "dispensing-section"
    THEN [d EXCEPT !["admin-section-1"] = "none", !["admin-section-2"] = "none",
                   !["payment-section"] = "none", !["dispensing-section"] = "block"]
    ELSE d

showSection(sectionId, d) ==
    LET hidden == [r \in Regions |->
                     IF r \in ContainerDivs
                        /\ RegionId(r) # "add-product-form"
                        /\ RegionId(r) # "add-product-message"
                        /\ RegionId(r) # "product-list"
                     THEN "none" ELSE d[r]]
    IN  IF sectionId = "product-list-view"
        THEN [hidden EXCEPT !["admin-section-1"] = "block",
                            !["admin-section-2"] = "block"]
        ELSE IF sectionId = "payment-section"
        THEN [hidden EXCEPT !["admin-section-1"] = "none",
                            !["admin-section-2"] = "none",
                            !["payment-section"] = "block"]
        ELSE IF sectionId = "dispensing-section"
        THEN [hidden EXCEPT !["admin-section-1"] = "none",
                            !["admin-section-2"] = "none",
                            !["payment-section"] = "none",
                            !["dispensing-section"] = "block"]
        ELSE hidden

\* the views of which some region is displayed
VisibleViews(d) ==
    {v \in Views :
        \/ v = "product-list-view"
           /\ (d["admin-section-1"] = "block" \/ d["admin-section-2"] = "block")
        \/ v = "payment-section" /\ d["payment-section"] = "block"
        \/ v = "dispensing-section" /\ d["dispensing-section"] = "block"}

\* the product cards can be clicked: their enclosing section is displayed
ProductListShown(d) == d["admin-section-2"] = "block"

\* the add-product form can be used: its enclosing section is displayed
FormShown(d) == d["admin-section-1"] = "block"

(***************************************************************************)
(* Values exchanged with the backend.  A product is {id, nombre,           *)
(* cantidad_ml, precio}; precio is a number kept in thousandths (1500 is   *)
(* 1.5).  Text that the code builds by concatenation is a tuple of its     *)
(* parts; text that is scanned character by character is a tuple of        *)
(* one-character strings.                                                   *)
(***************************************************************************)
ProductA == [id |-> 1, nombre |-> "Soda", cantidad_ml |-> 350, precio |-> 1500]
ProductB == [id |-> 2, nombre |-> "Agua", cantidad_ml |-> 500, precio |-> 2125]

\* bodies of 2xx responses of GET /api/productos that parse to an array of products
ProductLists == {<<>>, <<ProductA>>, <<ProductB, ProductA>>}

\* Number.prototype.toFixed(2) of x thousandths: <<integer part, tenths, hundredths>>
toFixed2(x) ==
    LET n == (x + 5) \div 10
    IN  <<n \div 100, (n % 100) \div 10, n % 10>>

\* the element built by lines 56-63; product is the argument bound by the click listener
ProductCard(product) ==
    [className |-> "product-card",
     h3        |-> product.nombre,
     p         |-> <<product.cantidad_ml, " ml">>,
     price     |-> <<"$", toFixed2(product.precio)>>,
     product   |-> product]

RECURSIVE appendCards(_, _)
\* products.forEach(... productListDiv.appendChild(productCard))
appendCards(div, products) ==
    IF products = <<>> THEN div
    ELSE appendCards([div EXCEPT !.cards = Append(@, ProductCard(Head(products)))],
                     Tail(products))

\* contents of #product-list: a message paragraph (text, class) and the cards
ListMessage(text, class) == [p |-> text, className |-> class, cards |-> <<>>]
ListEmpty == ListMessage("", "")
ListLoading == ListMessage("Cargando productos...", "")
ListNoProducts == ListMessage("No hay productos configurados.", "")
ListError == ListMessage("Error al cargar productos. Intenta de nuevo mas tarde.",
                         "message error")

\* qr_data the backend returns for a product id
IdChar(id) == IF id = 1 THEN "1" ELSE IF id = 2 THEN "2" ELSE "0"
QrData(id) == <<"m", "p", ":", "/", "?", "i", "d", "=", IdChar(id)>>

\* encodeURIComponent of one character of the alphabet of QrData
PercentEncode(c) ==
    CASE c = ":" -> <<"%", "3", "A">>
      [] c = "/" -> <<"%", "2", "F">>
      [] c = "?" -> <<"%", "3", "F">>
      [] c = "=" -> <<"%", "3", "D">>
      [] OTHER   -> <<c>>

RECURSIVE encodeURIComponent(_)
encodeURIComponent(s) ==
    IF s = <<>> THEN <<>> ELSE PercentEncode(Head(s)) \o encodeURIComponent(Tail(s))

\* the <img> of line 99
QrImage(qr_data) ==
    <<[src |-> <<"https://api.qrserver.com/v1/create-qr-code/?size=200x200&data=",
                 encodeURIComponent(qr_data)>>,
       alt |-> "Codigo QR de Mercado Pago"]>>

\* parsed bodies of 2xx responses of POST /api/generar_qr/<id>; "" is an absent field
QrBodies(id) ==
    {[status |-> "success", qr_data |-> QrData(id), error |-> ""],
     [status |-> "success", qr_data |-> <<>>,        error |-> ""],
     [status |-> "error",   qr_data |-> <<>>,        error |-> "no stock"],
     [status |-> "error",   qr_data |-> <<>>,        error |-> ""]}

\* parsed bodies of responses of POST /api/productos; "" is an absent error field
AddBodies == {[error |-> ""], [error |-> "nombre requerido"]}

Message(text, class) == [textContent |-> text, className |-> class]
NoMessage == Message(<<>>, "")
Generating == Message(<<"Generando codigo QR...">>, "message")
ScanToPay == Message(<<"!Escanea para pagar!">>, "message success")
QrAppError(data) ==
    Message(<<"Error al generar QR: ", IF data.error # "" THEN data.error ELSE "Desconocido">>,
            "message error")
QrGenericError == Message(<<"Error al generar el codigo QR. Intenta de nuevo.">>,
                          "message error")
Adding == Message(<<"Anadiendo producto...">>, "message")
Added == Message(<<"Producto anadido exitosamente!">>, "message success")
AddError(message) == Message(<<"Error al anadir producto: ", message>>, "message error")

(***************************************************************************)
(* The form inputs and their parsing (lines 119-121, 132).                 *)
(***************************************************************************)
IsDigit(c) == c \in {"0", "1", "2", "3", "4", "5", "6", "7", "8", "9"}
DigitValue(c) ==
    CASE c = "0" -> 0 [] c = "1" -> 1 [] c = "2" -> 2 [] c = "3" -> 3 [] c = "4" -> 4
      [] c = "5" -> 5 [] c = "6" -> 6 [] c = "7" -> 7 [] c = "8" -> 8 [] c = "9" -> 9

RECURSIVE digitsPrefix(_)
digitsPrefix(s) ==
    IF s = <<>> \/ ~IsDigit(Head(s)) THEN <<>> ELSE <<Head(s)>> \o digitsPrefix(Tail(s))

RECURSIVE digitsValue(_, _)
digitsValue(s, acc) ==
    IF s = <<>> THEN acc ELSE digitsValue(Tail(s), 10 * acc + DigitValue(Head(s)))

RECURSIVE trimStart(_)
trimStart(s) == IF s # <<>> /\ Head(s) = " " THEN trimStart(Tail(s)) ELSE s

NaN == [nan |-> TRUE, v |-> 0]
Num(v) == [nan |-> FALSE, v |-> v]

\* parseInt(s): leading blanks, an optional sign, the longest prefix of digits
parseInt(s) ==
    LET t == trimStart(s)
        neg == t # <<>> /\ Head(t) = "-"
        u == IF t # <<>> /\ Head(t) \in {"-", "+"} THEN Tail(t) ELSE t
        d == digitsPrefix(u)
    IN  IF d = <<>> THEN NaN
        ELSE Num(IF neg THEN 0 - digitsValue(d, 0) ELSE digitsValue(d, 0))

\* the first three decimals of a digit string, as thousandths
Thousandths(f) ==
    LET g == SubSeq(f \o <<"0", "0", "0">>, 1, 3) IN digitsValue(g, 0)

\* parseFloat(s), in thousandths: digits, then optionally a point and digits
parseFloat(s) ==
    LET t == trimStart(s)
        neg == t # <<>> /\ Head(t) = "-"
        u == IF t # <<>> /\ Head(t) \in {"-", "+"} THEN Tail(t) ELSE t
        i == digitsPrefix(u)
        rest == SubSeq(u, Len(i) + 1, Len(u))
        f == IF rest # <<>> /\ Head(rest) = "." THEN digitsPrefix(Tail(rest)) ELSE <<>>
        abs == 1000 * digitsValue(i, 0) + Thousandths(f)
    IN  IF i = <<>> /\ f = <<>> THEN NaN
        ELSE Num(IF neg THEN 0 - abs ELSE abs)

\* JSON.stringify of a number: NaN is written as null
JSONNumber(n) == [isNull |-> n.nan, v |-> n.v]

\* JSON.stringify({ nombre, cantidad_ml, precio })
RequestBody(nombre, cantidad_ml, precio) ==
    [nombre |-> nombre, cantidad_ml |-> JSONNumber(cantidad_ml), precio |-> JSONNumber(precio)]

\* values of the three inputs: after reset, a well-formed product, a malformed one
FormBlank == [name |-> <<>>, quantity |-> <<>>, price |-> <<>>]
FormInputs ==
    {[name |-> <<"S", "o", "d", "a">>, quantity |-> <<"3", "5", "0">>,
      price |-> <<"1", ".", "5">>],
     [name |-> <<"T", "e">>, quantity |-> <<"a", "b">>, price |-> <<" ", "-", "2">>]}

(***************************************************************************)
(* Initial state: the document before the DOMContentLoaded handler runs.   *)
(* The display of the regions comes from the stylesheet, which is not part *)
(* of the sources, so every combination is an initial state.               *)
(***************************************************************************)
Init ==
    /\ loaded = FALSE
    /\ display \in [Regions -> {"block", "none"}]
    /\ selectedProductId = null
    /\ productListDiv = ListEmpty
    /\ paymentStatusMessage = NoMessage
    /\ qrCodeContainer = <<>>
    /\ addProductMessage = NoMessage
    /\ formFields = FormBlank
    /\ listReqs = {}
    /\ qrReqs = {}
    /\ addReqs = {}
    /\ nList = 0
    /\ nQr = 0
    /\ nAdd = 0
    /\ lastClicked = null
    /\ overlap = FALSE
    /\ listShownOf = 0

(***************************************************************************)
(* fetchProducts (lines 40-70).                                            *)
(***************************************************************************)
\* lines 41-43: the synchronous part, up to `await fetch('/api/productos')`
fetchProducts ==
    /\ productListDiv' = ListLoading
    /\ nList' = nList + 1
    /\ listReqs' = listReqs \cup {[id |-> nList + 1, pc |-> "fetch"]}
    /\ listShownOf' = nList + 1

\* lines 43-44, 47: the response is ok, the function awaits response.json()
fetchProducts_ok(r) ==
    /\ listReqs' = (listReqs \ {r}) \cup {[r EXCEPT !.pc = "json"]}
    /\ UNCHANGED <<display, selectedProductId, productListDiv, paymentStatusMessage,
                   qrCodeContainer, addProductMessage, formFields, qrReqs, addReqs,
                   nList, nQr, nAdd, listShownOf>>

\* fetchProducts without line 48: the cards are appended to what the list holds
fetchProducts_render_noClear(r, products) ==
    /\ productListDiv' = IF Len(products) = 0 THEN ListNoProducts
                         ELSE appendCards(productListDiv, products)
    /\ listReqs' = listReqs \ {r}
    /\ listShownOf' = r.id
    /\ UNCHANGED <<display, selectedProductId, paymentStatusMessage, qrCodeContainer,
                   addProductMessage, formFields, qrReqs, addReqs, nList, nQr, nAdd>>

\* lines 48-65: the products are rendered
fetchProducts_render(r, products) ==
    /\ productListDiv' = IF Len(products) = 0 THEN ListNoProducts
                         ELSE appendCards(ListEmpty, products)
    /\ listReqs' = listReqs \ {r}
    /\ listShownOf' = r.id
    /\ UNCHANGED <<display, selectedProductId, paymentStatusMessage, qrCodeContainer,
                   addProductMessage, formFields, qrReqs, addReqs, nList, nQr, nAdd>>

\* fetchProducts whose catch block adds the error paragraph instead of replacing
\* the content of the list
fetchProducts_catch_keepCards(r) ==
    /\ productListDiv' = [productListDiv EXCEPT !.p = ListError.p,
                                                !.className = ListError.className]
    /\ listReqs' = listReqs \ {r}
    /\ listShownOf' = r.id
    /\ UNCHANGED <<display, selectedProductId, paymentStatusMessage, qrCodeContainer,
                   addProductMessage, formFields, qrReqs, addReqs, nList, nQr, nAdd>>

\* lines 66-69: the catch block
fetchProducts_catch(r) ==
    /\ productListDiv' = ListError
    /\ listReqs' = listReqs \ {r}
    /\ listShownOf' = r.id
    /\ UNCHANGED <<display, selectedProductId, paymentStatusMessage, qrCodeContainer,
                   addProductMessage, formFields, qrReqs, addReqs, nList, nQr, nAdd>>

(***************************************************************************)
(* selectProduct (lines 73-113).                                           *)
(***************************************************************************)
\* selectProduct that issues the request first and leaves lines 75-78 to the
\* continuation: the view and the status are not changed in the turn of the click
selectProduct_requestFirst(product) ==
    /\ selectedProductId' = product.id
    /\ nQr' = nQr + 1
    /\ qrReqs' = qrReqs \cup {[id |-> nQr + 1, pc |-> "fetch", product |-> product,
                               url |-> <<"/api/generar_qr/", selectedProductId'>>]}
    /\ UNCHANGED <<display, paymentStatusMessage, qrCodeContainer, productListDiv,
                   addProductMessage, formFields, listReqs, addReqs, nList, nAdd,
                   listShownOf>>

\* selectProduct that aborts the requests of earlier selections
selectProduct_abortEarlier(product) ==
    /\ selectedProductId' = product.id
    /\ display' = showSection("payment-section", display)
    /\ paymentStatusMessage' = Generating
    /\ qrCodeContainer' = <<>>
    /\ nQr' = nQr + 1
    /\ qrReqs' = {[id |-> nQr + 1, pc |-> "fetch", product |-> product,
                   url |-> <<"/api/generar_qr/", selectedProductId'>>]}
    /\ UNCHANGED <<productListDiv, addProductMessage, formFields, listReqs, addReqs,
                   nList, nAdd, listShownOf>>

\* selectProduct that builds the URL before line 74 has stored the id
selectProduct_staleId(product) ==
    /\ selectedProductId' = product.id
    /\ display' = showSection("payment-section", display)
    /\ paymentStatusMessage' = Generating
    /\ qrCodeContainer' = <<>>
    /\ nQr' = nQr + 1
    /\ qrReqs' = qrReqs \cup {[id |-> nQr + 1, pc |-> "fetch", product |-> product,
                               url |-> <<"/api/generar_qr/", selectedProductId>>]}
    /\ UNCHANGED <<productListDiv, addProductMessage, formFields, listReqs, addReqs,
                   nList, nAdd, listShownOf>>

\* selectProduct without line 78: the previous QR image is kept
selectProduct_noClear(product) ==
    /\ selectedProductId' = product.id
    /\ display' = showSection("payment-section", display)
    /\ paymentStatusMessage' = Generating
    /\ nQr' = nQr + 1
    /\ qrReqs' = qrReqs \cup {[id |-> nQr + 1, pc |-> "fetch", product |-> product,
                               url |-> <<"/api/generar_qr/", selectedProductId'>>]}
    /\ UNCHANGED <<qrCodeContainer, productListDiv, addProductMessage, formFields,
                   listReqs, addReqs, nList, nAdd, listShownOf>>

\* lines 74-86: the synchronous part, up to `await fetch(...)`
selectProduct(product) ==
    /\ selectedProductId' = product.id
    /\ display' = showSection("payment-section", display)
    /\ paymentStatusMessage' = Generating
    /\ qrCodeContainer' = <<>>
    /\ nQr' = nQr + 1
    /\ qrReqs' = qrReqs \cup {[id |-> nQr + 1, pc |-> "fetch", product |-> product,
                               url |-> <<"/api/generar_qr/", selectedProductId'>>]}
    /\ UNCHANGED <<productListDiv, addProductMessage, formFields, listReqs, addReqs,
                   nList, nAdd, listShownOf>>

\* lines 88, 92: the response is ok, the function awaits response.json()
selectProduct_ok(r) ==
    /\ qrReqs' = (qrReqs \ {r}) \cup {[r EXCEPT !.pc = "json"]}
    /\ UNCHANGED <<display, selectedProductId, productListDiv, paymentStatusMessage,
                   qrCodeContainer, addProductMessage, formFields, listReqs, addReqs,
                   nList, nQr, nAdd, listShownOf>>

\* lines 94-106: the parsed body is handled
selectProduct_data(r, data) ==
    /\ IF data.status = "success" /\ data.qr_data # <<>>
       THEN /\ qrCodeContainer' = QrImage(data.qr_data)
            /\ paymentStatusMessage' = ScanToPay
       ELSE /\ paymentStatusMessage' = QrAppError(data)
            /\ UNCHANGED qrCodeContainer
    /\ qrReqs' = qrReqs \ {r}
    /\ UNCHANGED <<display, selectedProductId, productListDiv, addProductMessage,
                   formFields, listReqs, addReqs, nList, nQr, nAdd, listShownOf>>

\* selectProduct whose catch block also goes back to the product list
selectProduct_catch_goBack(r) ==
    /\ paymentStatusMessage' = QrGenericError
    /\ display' = showSection("product-list-view", display)
    /\ qrReqs' = qrReqs \ {r}
    /\ UNCHANGED <<selectedProductId, productListDiv, qrCodeContainer,
                   addProductMessage, formFields, listReqs, addReqs, nList, nQr, nAdd,
                   listShownOf>>

\* lines 108-112: the catch block
selectProduct_catch(r) ==
    /\ paymentStatusMessage' = QrGenericError
    /\ qrReqs' = qrReqs \ {r}
    /\ UNCHANGED <<display, selectedProductId, productListDiv, qrCodeContainer,
                   addProductMessage, formFields, listReqs, addReqs, nList, nQr, nAdd,
                   listShownOf>>

(***************************************************************************)
(* The submit handler of the add-product form (lines 116-150).             *)
(***************************************************************************)
\* lines 117-133: the synchronous part, up to `await fetch(...)`
submitHandler ==
    LET nombre == formFields.name
        cantidad_ml == parseInt(formFields.quantity)
        precio == parseFloat(formFields.price)
    IN  /\ addProductMessage' = Adding
        /\ nAdd' = nAdd + 1
        /\ addReqs' = addReqs \cup {[id |-> nAdd + 1, pc |-> "fetch", ok |-> FALSE,
                                     body |-> RequestBody(nombre, cantidad_ml, precio)]}
        /\ UNCHANGED <<display, selectedProductId, productListDiv, paymentStatusMessage,
                       qrCodeContainer, formFields, listReqs, qrReqs, nList, nQr,
                       listShownOf>>

\* lines 127, 135: a response arrived (ok or not), the handler awaits response.json()
submitHandler_response(r, ok) ==
    /\ addReqs' = (addReqs \ {r}) \cup {[r EXCEPT !.pc = "json", !.ok = ok]}
    /\ UNCHANGED <<display, selectedProductId, productListDiv, paymentStatusMessage,
                   qrCodeContainer, addProductMessage, formFields, listReqs, qrReqs,
                   nList, nQr, nAdd, listShownOf>>

\* lines 145-149: the catch block, error.message being message
submitHandler_catch(r, message) ==
    /\ addProductMessage' = AddError(message)
    /\ addReqs' = addReqs \ {r}
    /\ UNCHANGED <<display, selectedProductId, productListDiv, paymentStatusMessage,
                   qrCodeContainer, formFields, listReqs, qrReqs, nList, nQr, nAdd,
                   listShownOf>>

\* lines 137-144: the body parsed; response.ok decides
submitHandler_data(r, data) ==
    IF r.ok
    THEN /\ addProductMessage' = Added
         /\ formFields' = FormBlank
         /\ fetchProducts
         /\ addReqs' = addReqs \ {r}
         /\ UNCHANGED <<display, selectedProductId, paymentStatusMessage, qrCodeContainer,
                        qrReqs, nQr, nAdd>>
    ELSE submitHandler_catch(r, IF data.error # "" THEN data.error
                                ELSE "Error desconocido al anadir producto")

(***************************************************************************)
(* The click handler of the back button (lines 153-156).                   *)
(***************************************************************************)
\* the back handler without line 155: the list is not fetched again
backToProductsClick_noFetch ==
    /\ display' = showSection("product-list-view", display)
    /\ UNCHANGED <<selectedProductId, paymentStatusMessage, qrCodeContainer,
                   addProductMessage, formFields, qrReqs, addReqs, nQr, nAdd,
                   productListDiv, nList, listReqs, listShownOf>>

backToProductsClick ==
    /\ display' = showSection("product-list-view", display)
    /\ fetchProducts
    /\ UNCHANGED <<selectedProductId, paymentStatusMessage, qrCodeContainer,
                   addProductMessage, formFields, qrReqs, addReqs, nQr, nAdd>>

(***************************************************************************)
(* The event-loop turns.                                                   *)
(***************************************************************************)
\* n more requests fit under MaxRequests, counting the fetchProducts call that each
\* suspended submit handler may still make
Room(n) == nList + nQr + nAdd + Cardinality(addReqs) + n <= MaxRequests

\* lines 1, 159-160
DOMContentLoaded ==
    /\ ~loaded
    /\ loaded' = TRUE
    /\ display' = showSection("product-list-view", display)
    /\ fetchProducts
    /\ UNCHANGED <<selectedProductId, paymentStatusMessage, qrCodeContainer,
                   addProductMessage, formFields, qrReqs, addReqs, nQr, nAdd,
                   lastClicked, overlap>>

\* the user clicks the i-th card of the list (listener of line 63)
ClickCard(i) ==
    /\ loaded
    /\ ProductListShown(display)
    /\ i \in DOMAIN productListDiv.cards
    /\ Room(1)
    /\ selectProduct(productListDiv.cards[i].product)
    /\ lastClicked' = productListDiv.cards[i].product.id
    /\ overlap' = (overlap \/ qrReqs # {})
    /\ UNCHANGED loaded

\* the user clicks the back button
ClickBack ==
    /\ loaded
    /\ Room(1)
    /\ backToProductsClick
    /\ UNCHANGED <<loaded, lastClicked, overlap>>

\* the user fills in the form
TypeForm(f) ==
    /\ loaded
    /\ FormShown(display)
    /\ f # formFields
    /\ formFields' = f
    /\ UNCHANGED <<loaded, display, selectedProductId, productListDiv, paymentStatusMessage,
                   qrCodeContainer, addProductMessage, listReqs, qrReqs, addReqs,
                   nList, nQr, nAdd, lastClicked, overlap, listShownOf>>

\* the user submits the form
SubmitForm ==
    /\ loaded
    /\ FormShown(display)
    /\ Room(2)
    /\ submitHandler
    /\ UNCHANGED <<loaded, lastClicked, overlap>>

\* GET /api/productos fails in transport: the awaited fetch rejects
ListFetchRejected(r) ==
    /\ r.pc = "fetch"
    /\ fetchProducts_catch(r)
    /\ UNCHANGED <<loaded, lastClicked, overlap>>

\* GET /api/productos answers with a non-2xx status: line 45 throws
ListFetchNotOk(r) ==
    /\ r.pc = "fetch"
    /\ fetchProducts_catch(r)
    /\ UNCHANGED <<loaded, lastClicked, overlap>>

\* GET /api/productos answers with a 2xx status
ListFetchOk(r) ==
    /\ r.pc = "fetch"
    /\ fetchProducts_ok(r)
    /\ UNCHANGED <<loaded, lastClicked, overlap>>

\* the body of the list response is not JSON: the awaited response.json() rejects
ListJsonRejected(r) ==
    /\ r.pc = "json"
    /\ fetchProducts_catch(r)
    /\ UNCHANGED <<loaded, lastClicked, overlap>>

\* the body of the list response parses to products
ListJsonResolved(r, products) ==
    /\ r.pc = "json"
    /\ fetchProducts_render(r, products)
    /\ UNCHANGED <<loaded, lastClicked, overlap>>

QrFetchRejected(r) ==
    /\ r.pc = "fetch"
    /\ selectProduct_catch(r)
    /\ UNCHANGED <<loaded, lastClicked, overlap>>

QrFetchNotOk(r) ==
    /\ r.pc = "fetch"
    /\ selectProduct_catch(r)
    /\ UNCHANGED <<loaded, lastClicked, overlap>>

QrFetchOk(r) ==
    /\ r.pc = "fetch"
    /\ selectProduct_ok(r)
    /\ UNCHANGED <<loaded, lastClicked, overlap>>

QrJsonRejected(r) ==
    /\ r.pc = "json"
    /\ selectProduct_catch(r)
    /\ UNCHANGED <<loaded, lastClicked, overlap>>

QrJsonResolved(r, data) ==
    /\ r.pc = "json"
    /\ selectProduct_data(r, data)
    /\ UNCHANGED <<loaded, lastClicked, overlap>>

AddFetchRejected(r) ==
    /\ r.pc = "fetch"
    /\ submitHandler_catch(r, "Failed to fetch")
    /\ UNCHANGED <<loaded, lastClicked, overlap>>

AddFetchResolved(r, ok) ==
    /\ r.pc = "fetch"
    /\ submitHandler_response(r, ok)
    /\ UNCHANGED <<loaded, lastClicked, overlap>>

\* the body of the create response is not JSON, whatever the status
AddJsonRejected(r) ==
    /\ r.pc = "json"
    /\ submitHandler_catch(r, "Unexpected end of JSON input")
    /\ UNCHANGED <<loaded, lastClicked, overlap>>

AddJsonResolved(r, data) ==
    /\ r.pc = "json"
    /\ submitHandler_data(r, data)
    /\ UNCHANGED <<loaded, lastClicked, overlap>>

Next ==
    \/ DOMContentLoaded
    \/ \E i \in 1..2 : ClickCard(i)
    \/ ClickBack
    \/ \E f \in FormInputs : TypeForm(f)
    \/ SubmitForm
    \/ \E r \in listReqs : ListFetchRejected(r)
    \/ \E r \in listReqs : ListFetchNotOk(r)
    \/ \E r \in listReqs : ListFetchOk(r)
    \/ \E r \in listReqs : ListJsonRejected(r)
    \/ \E r \in listReqs : \E products \in ProductLists : ListJsonResolved(r, products)
    \/ \E r \in qrReqs : QrFetchRejected(r)
    \/ \E r \in qrReqs : QrFetchNotOk(r)
    \/ \E r \in qrReqs : QrFetchOk(r)
    \/ \E r \in qrReqs : QrJsonRejected(r)
    \/ \E r \in qrReqs : \E data \in QrBodies(r.url[2]) : QrJsonResolved(r, data)
    \/ \E r \in addReqs : AddFetchRejected(r)
    \/ \E r \in addReqs : \E ok \in BOOLEAN : AddFetchResolved(r, ok)
    \/ \E r \in addReqs : AddJsonRejected(r)
    \/ \E r \in addReqs : \E data \in AddBodies : AddJsonResolved(r, data)

Spec == Init /\ [][Next]_vars

(***************************************************************************)
(* Properties.                                                             *)
(***************************************************************************)
\* exactly this view is displayed, with every region it is made of
OnlyProductList(d) ==
    /\ VisibleViews(d) = {"product-list-view"}
    /\ d["admin-section-1"] = "block"
    /\ d["admin-section-2"] = "block"
OnlyPayment(d) == VisibleViews(d) = {"payment-section"}

\* ids of the invocations of fetchProducts that have run to their end
ListDone == {i \in 1..nList : \A r \in listReqs : r.id # i}

\* the list area as lines 48-65 leave it for a non-empty array of products
Rendered(products) ==
    [p |-> "", className |-> "",
     cards |-> [i \in 1..Len(products) |-> ProductCard(products[i])]]

\* C1: a click on a card while the product list is the visible view makes the
\* payment view the visible view, sets the status to the generating message and
\* empties the QR container in the turn that issues the QR request: at the end of
\* that turn the request is suspended at its fetch, no response of it processed.
C1_SelectEffectsBeforeResponse ==
    [][(loaded /\ OnlyProductList(display) /\ nQr' = nQr + 1) =>
          /\ OnlyPayment(display')
          /\ paymentStatusMessage' = Generating
          /\ qrCodeContainer' = <<>>
          /\ \E r \in qrReqs' \ qrReqs : r.id = nQr' /\ r.pc = "fetch"]_vars

C1_Witness ==
    /\ OnlyPayment(display)
    /\ paymentStatusMessage = Generating
    /\ qrCodeContainer = <<>>
    /\ nQr = 2
    /\ \E r \in qrReqs : r.id = nQr /\ r.pc = "fetch"

\* C2: a create-product POST answered with an HTTP OK status ends, whatever the
\* body, with the success message, the form reset and one new list fetch.
C2_OkResponseEndsInSuccess ==
    [][\A r \in addReqs :
          (r.pc = "json" /\ r.ok /\ r \notin addReqs') =>
             /\ addProductMessage' = Added
             /\ formFields' = FormBlank
             /\ nList' = nList + 1]_vars

\* C3: issuing a request never removes a suspended invocation, and a response is
\* applied whether or not newer requests were issued since: the end of a
\* selectProduct invocation writes its outcome to the payment area, the end of a
\* fetchProducts invocation writes its outcome to the list area.
C3_NoCancellationNoSequencing ==
    [][/\ (nQr' > nQr \/ nList' > nList) =>
             /\ qrReqs \subseteq qrReqs'
             /\ listReqs \subseteq listReqs'
       /\ \A r \in qrReqs :
             (\A q \in qrReqs' : q.id # r.id) =>
                \/ /\ paymentStatusMessage' = ScanToPay
                   /\ qrCodeContainer' = QrImage(QrData(r.product.id))
                \/ /\ paymentStatusMessage'.className = "message error"
                   /\ qrCodeContainer' = qrCodeContainer
       /\ \A r \in listReqs :
             (\A q \in listReqs' : q.id # r.id) =>
                /\ productListDiv' # ListLoading
                /\ listShownOf' = r.id]_vars

\* A's QR is shown while B is the selection, and the list area shows the outcome
\* of a fetch older than one that has already ended
C3_Witness ==
    /\ qrCodeContainer = QrImage(QrData(ProductA.id))
    /\ selectedProductId = ProductB.id
    /\ qrReqs = {}
    /\ listShownOf \in ListDone
    /\ \E i \in ListDone : i > listShownOf

\* C4: the turn that renders a list response of N >= 1 products leaves exactly one
\* card per product, in response order, and no message, whatever else is in flight;
\* and the cards in the list area are at all times those of a single response.
C4_RenderExactlyTheResponse ==
    /\ [][\A r \in listReqs : \A products \in ProductLists :
             (Len(products) >= 1 /\ ListJsonResolved(r, products)) =>
                productListDiv' = Rendered(products)]_vars
    /\ [](\/ productListDiv.cards = <<>>
          \/ \E products \in ProductLists : productListDiv = Rendered(products))

\* rendered cards of the fetch made by a successful add, the fetch of a later
\* back click still in flight
C4_Witness ==
    /\ addProductMessage = Added
    /\ Len(productListDiv.cards) = 2
    /\ listShownOf = 2
    /\ \E r \in listReqs : r.id = 3

\* C5: the turn that handles a failed list fetch leaves the error message and no
\* card in the list area, and issues no request.
C5_ListFailureShowsErrorOnly ==
    [][\A r \in listReqs :
          (ListFetchRejected(r) \/ ListFetchNotOk(r) \/ ListJsonRejected(r)) =>
             /\ productListDiv'.p = ListError.p
             /\ productListDiv'.className = "message error"
             /\ productListDiv'.cards = <<>>
             /\ listReqs' = listReqs \ {r}
             /\ <<nList, nQr, nAdd>>' = <<nList, nQr, nAdd>>]_vars

\* the failure of an older fetch was handled after a newer fetch had ended
C5_Witness ==
    /\ productListDiv = ListError
    /\ listShownOf \in ListDone
    /\ \E i \in ListDone : i > listShownOf

\* C6: a click on the back button makes the product list the visible view and
\* issues exactly one list request.
C6_BackShowsListAndFetchesOnce ==
    [][ClickBack =>
          /\ OnlyProductList(display')
          /\ display'["payment-section"] = "none"
          /\ display'["dispensing-section"] = "none"
          /\ nList' = nList + 1
          /\ listReqs \subseteq listReqs'
          /\ Cardinality(listReqs' \ listReqs) = 1
          /\ nQr' = nQr /\ nAdd' = nAdd]_vars

\* back was clicked in the payment view while requests were in flight
C6_Witness ==
    /\ OnlyProductList(display)
    /\ qrReqs # {}
    /\ Cardinality(listReqs) >= 2
    /\ productListDiv = ListLoading

\* the turns that handle a failed request
QrFailure(r) ==
    \/ QrFetchRejected(r) \/ QrFetchNotOk(r) \/ QrJsonRejected(r)
    \/ \E data \in QrBodies(r.url[2]) :
          /\ ~(data.status = "success" /\ data.qr_data # <<>>)
          /\ QrJsonResolved(r, data)
ListFailure(r) == ListFetchRejected(r) \/ ListFetchNotOk(r) \/ ListJsonRejected(r)
AddFailure(r) ==
    \/ AddFetchRejected(r) \/ AddJsonRejected(r)
    \/ \E data \in AddBodies : ~r.ok /\ AddJsonResolved(r, data)

\* C7: handling a failed request leaves the display of every region as it is; a QR
\* failure changes the payment status only, a list failure the list area only.
C7_FailuresKeepTheView ==
    [][/\ \A r \in qrReqs : QrFailure(r) =>
             /\ display' = display
             /\ productListDiv' = productListDiv
             /\ qrCodeContainer' = qrCodeContainer
             /\ addProductMessage' = addProductMessage
       /\ \A r \in listReqs : ListFailure(r) =>
             /\ display' = display
             /\ paymentStatusMessage' = paymentStatusMessage
             /\ qrCodeContainer' = qrCodeContainer
             /\ addProductMessage' = addProductMessage
       /\ \A r \in addReqs : AddFailure(r) =>
             /\ display' = display
             /\ productListDiv' = productListDiv
             /\ paymentStatusMessage' = paymentStatusMessage
             /\ qrCodeContainer' = qrCodeContainer]_vars

\* after a QR failure, a list failure was handled while the payment view was
\* displayed (the list held cards when the last card was clicked) and left it displayed
C7_Witness ==
    /\ OnlyPayment(display)
    /\ productListDiv = ListError
    /\ paymentStatusMessage = QrGenericError
    /\ nQr = 2

\* C8: every QR request targets the id of the product whose card was clicked, and
\* the selection is the product of the last card clicked.
C8_RequestTargetsClickedProduct ==
    /\ \A r \in qrReqs : r.url = <<"/api/generar_qr/", r.product.id>>
    /\ selectedProductId = lastClicked

\* two selections of different products are in flight together
C8_Witness ==
    /\ \E r1, r2 \in qrReqs : r1.id < r2.id /\ r1.product.id # r2.product.id
    /\ selectedProductId = ProductA.id

\* C9: once the page is loaded at most one view is displayed, never the dispensing
\* view; the first is the product list; the displayed view changes only from the
\* product list to payment by a click on a card, and from payment to the product
\* list by a click on the back button.
C9_ViewStateMachine ==
    /\ [](loaded => /\ Cardinality(VisibleViews(display)) = 1
                    /\ "dispensing-section" \notin VisibleViews(display))
    /\ [][(~loaded /\ loaded') => OnlyProductList(display')]_vars
    /\ [][(loaded /\ VisibleViews(display') # VisibleViews(display)) =>
             \/ /\ OnlyProductList(display)
                /\ OnlyPayment(display')
                /\ \E i \in 1..2 : ClickCard(i)
             \/ /\ OnlyPayment(display)
                /\ OnlyProductList(display')
                /\ ClickBack]_vars

\* back in the product list after a payment view
C9_Witness ==
    /\ loaded
    /\ OnlyProductList(display)
    /\ nQr >= 1
    /\ selectedProductId # null

\* C10: as long as no card was clicked while a QR request was in flight, the QR
\* container holds an image only when the status is the success message.
C10_ImageOnlyWithSuccess ==
    ~overlap =>
        /\ qrCodeContainer # <<>> => paymentStatusMessage = ScanToPay
        /\ paymentStatusMessage # ScanToPay => qrCodeContainer = <<>>

\* a second selection, made after the first request had ended, failed
C10_Witness ==
    /\ ~overlap
    /\ nQr = 2
    /\ qrReqs = {}
    /\ paymentStatusMessage.className = "message error"
    /\ qrCodeContainer = <<>>

====
